---- MODULE Spec2Model ----
(***************************************************************************)
(* Model of ExpressHandlebars (src/express.ts): the Express view engine    *)
(* that renders a view, optionally inside a layout, with partials loaded   *)
(* lazily on the first render.                                             *)
(*                                                                         *)
(* JavaScript runs one job at a time.  The model has one action per job    *)
(* segment: the synchronous prefix of renderer() up to its first await,    *)
(* each continuation after an await, and each fs.readFile callback.  A     *)
(* continuation of a settled promise is a microtask: file callbacks and    *)
(* new render calls (macrotasks) run only when no continuation is ready.   *)
(* A render call made in the same job as another one differs from this     *)
(* only in the order of steps that commute: the continuation that follows  *)
(* the start of a call reads the cache, which only file callbacks write.   *)
(*                                                                         *)
(* Strings are sequences of tokens ("main", ".", "hbs"), so that endsWith, *)
(* concatenation and replace are computed, not assumed.  null and          *)
(* undefined are the one-token sequences Null and Undefined.               *)
(***************************************************************************)
EXTENDS Integers, Sequences, FiniteSets, TLC

\* Bound of the model: render calls started over one run.
MaxRenders == 2

\* The two call slots that may be in flight at the same time.
Calls == {"A", "B"}

Null == <<"#null">>
Undefined == <<"#undefined">>

\* defaultOptions (express.ts:68-74)
defaultLayoutOption == <<"main">>
partialsFolder == "partials"
layoutsFolder == "layouts"
fileExtension == <<"hbs">>

---------------------------------------------------------------------------
\* String helpers (String.prototype.endsWith, String.prototype.replace)

EndsWith(s, suffix) ==
    /\ Len(s) >= Len(suffix)
    /\ SubSeq(s, Len(s) - Len(suffix) + 1, Len(s)) = suffix

\* Positions at which `sub` occurs in `s`.
Occurrences(s, sub) ==
    {i \in 1..(Len(s) - Len(sub) + 1) : SubSeq(s, i, i + Len(sub) - 1) = sub}

\* s.replace(sub, ''): the first occurrence only.
RemoveFirst(s, sub) ==
    IF Occurrences(s, sub) = {} THEN s
    ELSE LET i == CHOOSE j \in Occurrences(s, sub) :
                     \A k \in Occurrences(s, sub) : j <= k
         IN  SubSeq(s, 1, i - 1) \o SubSeq(s, i + Len(sub), Len(s))

\* is.empty of @toba/node-tools: null, undefined or the empty string.
IsEmpty(s) == s = Null \/ s = Undefined \/ s = <<>>

---------------------------------------------------------------------------
\* The file system and the template engine (external; §6 of the design)

\* Values of settings.views an application may pass.
Views == {"v1", "v2"}

home == <<"home", ".", "hbs">>
part == <<"part", ".", "hbs">>
bad == <<"bad", ".", "hbs">>
ViewNames == {home, part, bad}

\* path.join(dir, folder, name); the views root is the folder "".
Join(dir, folder, name) == <<dir, folder, name>>

\* fs.readdirSync(dir/partials): every views directory has the same listing,
\* one partial and one file that is not a template.
ReadDir(dir, folder) ==
    IF folder = partialsFolder THEN {<<"p", ".", "hbs">>, <<"notes", ".", "txt">>}
    ELSE {}

\* The regular files that exist; a read of any other path fails.
FileExists(path) ==
    /\ path[1] \in Views
    /\ \/ path[2] = "" /\ path[3] \in ViewNames
       \/ path[2] = layoutsFolder
            /\ path[3] \in {<<"main", ".", "hbs">>, <<"alt", ".", "hbs">>}
       \/ path[2] = partialsFolder /\ path[3] \in ReadDir(path[1], partialsFolder)

\* The text of a file is identified by the file it was read from.
Content(path) == path

\* Handlebars.compile(content): the compiled template remembers its source.
Compile(content) == [src |-> content]

\* Sources the engine cannot compile.
BadSource(content) == content[3] = bad

\* Partial names a source refers to with {{> name}}.
Refs(content) == IF content[3] = part THEN {<<"p">>} ELSE {}

\* template(context) raises: a source that does not compile (Handlebars
\* compiles on first use) or a reference to a partial not registered yet.
Raises(template, registry) ==
    \/ BadSource(template.src)
    \/ \E n \in Refs(template.src) : n \notin DOMAIN registry

\* template(context): a function of the template and the whole context.
Apply(template, context) == [src |-> template.src, context |-> context]

---------------------------------------------------------------------------
\* Pure methods of ExpressHandlebars

addExtension(filePath) ==
    IF IsEmpty(filePath) \/ EndsWith(filePath, fileExtension)
    THEN filePath
    ELSE filePath \o <<".">> \o fileExtension

\* filePath is a joined path: its last segment is filePath[3].
partialName(filePath) == RemoveFirst(filePath[3], <<".">> \o fileExtension)

\* ResolveLayout with a fault: null is taken for "not given".
ResolveLayout_NullIsDefault(contextLayout, defaultLayout) ==
    IF contextLayout \in {Undefined, Null}
    THEN defaultLayout
    ELSE addExtension(contextLayout)

\* renderer, lines 146-149
ResolveLayout(contextLayout, defaultLayout) ==
    IF contextLayout = Undefined THEN defaultLayout ELSE addExtension(contextLayout)

\* renderer, lines 160-164
LayoutPath(base, layout) == Join(base, layoutsFolder, layout)

---------------------------------------------------------------------------
\* State

VARIABLES
    options,         \* this.options after the constructor
    basePath,        \* this.basePath
    partialsLoaded,  \* this.partialsLoaded
    cache,           \* this.cache: file path -> compiled template
    partials,        \* this.hbs.partials: partial name -> compiled template
    call,            \* the render call running in each slot
    ready,           \* calls whose awaited promise has settled (microtasks)
    pending,         \* fs.readFile calls whose callback has not run yet
    faults,          \* unhandled rejections and uncaught exceptions so far
    reads,           \* history: fs.readFile calls issued, per path
    loadCalls,       \* history: loadTemplate calls made, per path
    enumerated,      \* history: folders listed with fs.readdirSync
    started          \* history: render calls started

vars == <<options, basePath, partialsLoaded, cache, partials, call, ready,
          pending, faults, reads, loadCalls, enumerated, started>>

NoPath == Join("", "", <<>>)
NoTemplate == Compile(NoPath)
NoContext == [layout |-> Undefined, views |-> "", body |-> <<>>]

\* A slot in which no render call has been started.
IdleCall ==
    [pc |-> "idle", view |-> NoPath, viewPath |-> NoPath, context |-> NoContext,
     given |-> NoContext, cb |-> "absent", layout |-> Null,
     partialsReady |-> FALSE, awaited |-> [state |-> "none", template |-> NoTemplate],
     cbLog |-> <<>>, loaded |-> {}, readFailed |-> {}, compileFailed |-> {},
     invoked |-> <<>>, startedBatch |-> FALSE]

\* What a caller may pass as context.layout.
LayoutInputs ==
    {Undefined, Null, <<>>, <<"alt">>, <<"alt", ".", "hbs">>, <<"das", "hbs">>}

\* The callback argument: left out, a function that returns, or a function
\* that raises when it is handed the rendered output.
Callbacks == {"absent", "returns", "raises"}

Count(f, x) == IF x \in DOMAIN f THEN f[x] ELSE 0
Inc(f, x) == [y \in DOMAIN f \cup {x} |-> Count(f, y) + (IF y = x THEN 1 ELSE 0)]
Put(f, k, v) == [y \in DOMAIN f \cup {k} |-> IF y = k THEN v ELSE f[y]]
Empty == [x \in {} |-> 0]

\* constructor, lines 95-110: the options are the defaults overridden by the
\* caller's, and the default layout is normalised once.
Constructed(given) ==
    /\ options = [given EXCEPT !.defaultLayout = addExtension(@)]
    /\ basePath = ""
    /\ partialsLoaded = FALSE
    /\ cache = Empty
    /\ partials = Empty
    /\ call = [c \in Calls |-> IdleCall]
    /\ ready = {}
    /\ pending = {}
    /\ faults = {}
    /\ reads = Empty
    /\ loadCalls = Empty
    /\ enumerated = {}
    /\ started = 0

\* defaultOptions (lines 68-74), the part of them the model reads.
defaultOptions == [defaultLayout |-> defaultLayoutOption, cacheTemplates |-> TRUE]

\* new ExpressHandlebars(), as the tests construct it.
InitDefault == Constructed(defaultOptions)

\* new ExpressHandlebars({ cacheTemplates }) with either value.
Init ==
    \E cacheTemplates \in BOOLEAN :
        Constructed([defaultOptions EXCEPT !.cacheTemplates = cacheTemplates])

---------------------------------------------------------------------------
\* loadTemplate, loadPartials, ensurePartialsAreReady

\* CacheContains with a fault: the cache is never consulted.
CacheContains_Never(filePath) == FALSE

\* loadTemplate, line 209
CacheContains(filePath) == filePath \in DOMAIN cache

IncAll(f, xs) == [y \in DOMAIN f \cup xs |-> Count(f, y) + (IF y \in xs THEN 1 ELSE 0)]

Read(owner, filePath, registerAsPartial) ==
    [owner |-> owner, path |-> filePath, registerAsPartial |-> registerAsPartial]

\* loadTemplate with a fault: a load of a path that is being read issues no
\* read of its own.
loadTemplate_Deduplicated(c, filePath) ==
    /\ loadCalls' = Inc(loadCalls, filePath)
    /\ IF CacheContains(filePath)
       THEN /\ reads' = reads
            /\ pending' = pending
            /\ ready' = ready \cup {c}
       ELSE /\ reads' = IF \E r \in pending : r.path = filePath
                        THEN reads ELSE Inc(reads, filePath)
            /\ pending' = IF \E r \in pending : r.path = filePath
                          THEN pending ELSE pending \cup {Read(c, filePath, FALSE)}
            /\ ready' = ready \ {c}

\* loadTemplate called by a render call, lines 204-214: the promise it
\* returns is resolved at once from the cache, or stays pending on a read.
loadTemplate(c, filePath) ==
    /\ loadCalls' = Inc(loadCalls, filePath)
    /\ IF CacheContains(filePath)
       THEN /\ reads' = reads
            /\ pending' = pending
            /\ ready' = ready \cup {c}
       ELSE /\ reads' = Inc(reads, filePath)
            /\ pending' = pending \cup {Read(c, filePath, FALSE)}
            /\ ready' = ready \ {c}

\* The promise loadTemplate returned to the caller.
Awaited(filePath) ==
    IF CacheContains(filePath)
    THEN [state |-> "resolved", template |-> cache[filePath]]
    ELSE [state |-> "pending", template |-> NoTemplate]

\* loadPartials, lines 264-268: the files of the folder that are loaded.
PartialFiles(base, folder) ==
    {Join(base, folder, fileName) :
        fileName \in {f \in ReadDir(base, folder) : EndsWith(f, fileExtension)}}

\* loadPartials, lines 259-271.  The callback given to forEach is async: it
\* runs up to its await and returns a promise nobody holds.  readdirSync
\* raising inside it rejects that promise; nothing is thrown to the caller.
loadPartials(base, dirReadable) ==
    /\ enumerated' = enumerated \cup {Join(base, partialsFolder, <<>>)}
    /\ IF dirReadable
       THEN LET files == PartialFiles(base, partialsFolder)
                fresh == {f \in files : ~CacheContains(f)}
            IN  /\ loadCalls' = IncAll(loadCalls, files)
                /\ reads' = IncAll(reads, fresh)
                /\ pending' = pending \cup {Read("loadPartials", f, TRUE) : f \in fresh}
                /\ faults' = faults
       ELSE /\ faults' = faults \cup {<<"unhandledRejection", "loadPartials">>}
            /\ UNCHANGED <<loadCalls, reads, pending>>

\* Whether the call of loadPartials at line 173 throws to its caller.
loadPartialsThrows(dirReadable) == FALSE

\* ensurePartialsAreReady with a fault: the batch is started for every views
\* directory whose partials folder has not been enumerated.
ensurePartialsAreReady_PerDirectory(base, dirReadable) ==
    IF ~partialsLoaded \/ Join(base, partialsFolder, <<>>) \notin enumerated
    THEN /\ loadPartials(base, dirReadable)
         /\ partialsLoaded' = TRUE
    ELSE UNCHANGED <<partialsLoaded, enumerated, loadCalls, reads, pending, faults>>

\* ensurePartialsAreReady with a fault: the flag is not tested.
ensurePartialsAreReady_FlagIgnored(base, dirReadable) ==
    /\ loadPartials(base, dirReadable)
    /\ partialsLoaded' = TRUE

\* ensurePartialsAreReady, lines 170-180; its result is partialsLoaded'.
ensurePartialsAreReady(base, dirReadable) ==
    IF ~partialsLoaded
    THEN /\ loadPartials(base, dirReadable)
         /\ partialsLoaded' = ~loadPartialsThrows(dirReadable)
    ELSE UNCHANGED <<partialsLoaded, enumerated, loadCalls, reads, pending, faults>>

\* Outcomes of readdirSync that matter to a call of ensurePartialsAreReady.
DirOutcomes == IF partialsLoaded THEN {TRUE} ELSE BOOLEAN

\* cb(err) / cb(null, output), guarded by is.callable(cb).
ErrorResult == [error |-> TRUE, output |-> <<>>]
Success(output) == [error |-> FALSE, output |-> <<output>>]

---------------------------------------------------------------------------
\* renderer, lines 141-168

\* The synchronous part of renderer(viewPath, context, cb): up to the await
\* at line 155, or through the call of render at line 167 up to its await
\* at line 187.
renderer(c, views, viewName, contextLayout, cb, dirReadable) ==
    LET layout == ResolveLayout(contextLayout, options.defaultLayout)
        context == [layout |-> contextLayout, views |-> views, body |-> <<>>]
        viewPath == Join(views, "", viewName)
    IN  /\ call[c].pc \in {"idle", "done"}
        /\ ready = {}
        /\ started < MaxRenders
        /\ started' = started + 1
        /\ basePath' = views
        /\ ensurePartialsAreReady(views, dirReadable)
        /\ call' = [call EXCEPT ![c] =
              [IdleCall EXCEPT
                 !.pc = IF layout # Null THEN "renderer:ensure" ELSE "render:ensure",
                 !.view = viewPath, !.viewPath = viewPath,
                 !.context = context, !.given = context, !.cb = cb,
                 !.layout = layout,
                 !.partialsReady = partialsLoaded',
                 !.startedBatch = ~partialsLoaded,
                 !.cbLog = IF ~partialsLoaded' /\ cb # "absent"
                           THEN <<ErrorResult>> ELSE <<>>]]
        /\ ready' = ready \cup {c}
        /\ UNCHANGED <<options, cache, partials>>

\* renderer resumes after `await this.ensurePartialsAreReady(cb)`, line 155:
\* it starts the load of the body (line 156), or skips to render (line 167).
RendererAfterEnsure(c) ==
    /\ call[c].pc = "renderer:ensure"
    /\ c \in ready
    /\ IF call[c].partialsReady
       THEN /\ loadTemplate(c, call[c].viewPath)
            /\ call' = [call EXCEPT ![c].pc = "renderer:body",
                                    ![c].awaited = Awaited(call[c].viewPath),
                                    ![c].loaded = @ \cup {call[c].viewPath}]
            /\ UNCHANGED <<partialsLoaded, enumerated, faults>>
       ELSE /\ \E dirReadable \in DirOutcomes :
                  ensurePartialsAreReady(basePath, dirReadable)
            /\ call' = [call EXCEPT ![c].pc = "render:ensure",
                                    ![c].partialsReady = partialsLoaded',
                      ![c].startedBatch = @ \/ ~partialsLoaded,
                                    ![c].startedBatch = @ \/ ~partialsLoaded,
                                    ![c].cbLog =
                                        IF ~partialsLoaded' /\ call[c].cb # "absent"
                                        THEN Append(@, ErrorResult) ELSE @]
            /\ UNCHANGED ready
    /\ UNCHANGED <<options, basePath, cache, partials, started>>

\* LayoutBase with a fault: each call keeps the views directory it was given.
LayoutBase_PerCall(c) == call[c].given.views

\* renderer, lines 160-164: the directory the layout path is built from is
\* this.basePath as it stands when the continuation runs.
LayoutBase(c) == basePath

\* InjectBody with a fault: the body is not stored.
InjectBody_Skipped(template, context) == context.body

\* renderer, lines 157-159: the value of context.body after the guarded
\* assignment; a resolved template is always callable.
InjectBody(template, context) == <<Apply(template, context)>>

\* renderer resumes after `await this.loadTemplate(viewPath)`, lines 156-167.
\* A rejected load or a raising body template leaves renderer through its
\* own promise, which Express does not hold.  Otherwise the body is stored,
\* the path is re-targeted to the layout and render is called.
RendererAfterBody(c) ==
    LET template == call[c].awaited.template
        failed == \/ call[c].awaited.state = "rejected"
                  \/ Raises(template, partials)
    IN  /\ call[c].pc = "renderer:body"
        /\ c \in ready
        /\ IF failed
           THEN /\ call' = [call EXCEPT ![c].pc = "done"]
                /\ ready' = ready \ {c}
                /\ faults' = faults \cup {<<"unhandledRejection", c>>}
                /\ UNCHANGED <<partialsLoaded, enumerated, loadCalls, reads, pending>>
           ELSE /\ \E dirReadable \in DirOutcomes :
                      ensurePartialsAreReady(basePath, dirReadable)
                /\ call' = [call EXCEPT
                      ![c].pc = "render:ensure",
                      ![c].context.body = InjectBody(template, call[c].context),
                      ![c].viewPath = LayoutPath(LayoutBase(c), call[c].layout),
                      ![c].partialsReady = partialsLoaded',
                      ![c].cbLog = IF ~partialsLoaded' /\ call[c].cb # "absent"
                                   THEN Append(@, ErrorResult) ELSE @]
                /\ UNCHANGED ready
        /\ UNCHANGED <<options, basePath, cache, partials, started>>

---------------------------------------------------------------------------
\* render, lines 182-197

\* render resumes after `await this.ensurePartialsAreReady(cb)`, line 187.
RenderAfterEnsure(c) ==
    /\ call[c].pc = "render:ensure"
    /\ c \in ready
    /\ IF call[c].partialsReady
       THEN /\ loadTemplate(c, call[c].viewPath)
            /\ call' = [call EXCEPT ![c].pc = "render:template",
                                    ![c].awaited = Awaited(call[c].viewPath),
                                    ![c].loaded = @ \cup {call[c].viewPath}]
       ELSE /\ call' = [call EXCEPT ![c].pc = "done"]
            /\ ready' = ready \ {c}
            /\ UNCHANGED <<loadCalls, reads, pending>>
    /\ UNCHANGED <<options, basePath, partialsLoaded, cache, partials, faults,
                   enumerated, started>>

\* The calls of cb made by lines 190-195 once the load has settled.
Delivered(c) ==
    LET template == call[c].awaited.template
    IN  IF call[c].cb = "absent" THEN <<>>
        ELSE IF call[c].awaited.state = "rejected" THEN <<ErrorResult>>
        ELSE IF Raises(template, partials) THEN <<ErrorResult>>
        ELSE IF call[c].cb = "raises"
             THEN <<Success(Apply(template, call[c].context)), ErrorResult>>
        ELSE <<Success(Apply(template, call[c].context))>>

\* render resumes after `await this.loadTemplate(viewPath)`, lines 189-196.
RenderAfterTemplate(c) ==
    /\ call[c].pc = "render:template"
    /\ c \in ready
    /\ call' = [call EXCEPT
          ![c].pc = "done",
          ![c].cbLog = @ \o Delivered(c),
          ![c].invoked =
              IF call[c].cb # "absent" /\ call[c].awaited.state = "resolved"
              THEN <<[path |-> call[c].viewPath, context |-> call[c].context]>>
              ELSE <<>>]
    /\ ready' = ready \ {c}
    /\ UNCHANGED <<options, basePath, partialsLoaded, cache, partials, pending,
                   faults, reads, loadCalls, enumerated, started>>

---------------------------------------------------------------------------
\* The callback given to fs.readFile, lines 215-230.  It is a macrotask: it
\* runs when no continuation is ready.

\* The promise of the load settles: its awaiter, if any, becomes ready.
Settle(owner, state, template) ==
    IF owner \in Calls
    THEN /\ call' = [call EXCEPT
               ![owner].awaited = [state |-> state, template |-> template],
               ![owner].readFailed =
                   IF state = "rejected" THEN @ \cup {call[owner].viewPath} ELSE @]
         /\ ready' = ready \cup {owner}
    ELSE UNCHANGED <<call, ready>>

\* ReadFileFails with a fault: the failed path gets a cache entry.
ReadFileFails_CachesFailure(r) ==
    /\ r \in pending
    /\ ready = {}
    /\ pending' = pending \ {r}
    /\ cache' = Put(cache, r.path, NoTemplate)
    /\ Settle(r.owner, "rejected", NoTemplate)
    /\ faults' = IF r.owner \in Calls THEN faults
                 ELSE faults \cup {<<"unhandledRejection", r.owner>>}
    /\ UNCHANGED <<options, basePath, partialsLoaded, partials, reads,
                   loadCalls, enumerated, started>>

\* lines 216-219: the read failed.  A rejected partial load rejects the
\* Promise.all of loadPartials and with it the promise nobody holds.
ReadFileFails(r) ==
    /\ r \in pending
    /\ ready = {}
    /\ pending' = pending \ {r}
    /\ Settle(r.owner, "rejected", NoTemplate)
    /\ faults' = IF r.owner \in Calls THEN faults
                 ELSE faults \cup {<<"unhandledRejection", r.owner>>}
    /\ UNCHANGED <<options, basePath, partialsLoaded, cache, partials, reads,
                   loadCalls, enumerated, started>>

\* lines 220-229: compile, add to the cache, register a partial, resolve.
ReadFileSucceeds(r) ==
    LET template == Compile(Content(r.path))
    IN  /\ r \in pending
        /\ ready = {}
        /\ FileExists(r.path)
        /\ pending' = pending \ {r}
        /\ cache' = Put(cache, r.path, template)
        /\ partials' = IF r.registerAsPartial
                       THEN Put(partials, partialName(r.path), template)
                       ELSE partials
        /\ Settle(r.owner, "resolved", template)
        /\ UNCHANGED <<options, basePath, partialsLoaded, faults, reads,
                       loadCalls, enumerated, started>>

\* line 220 raises (an engine that compiles eagerly): the exception leaves
\* the callback uncaught and the promise of the load never settles.
CompileThrows(r) ==
    /\ r \in pending
    /\ ready = {}
    /\ FileExists(r.path)
    /\ BadSource(Content(r.path))
    /\ pending' = pending \ {r}
    /\ faults' = faults \cup {<<"uncaughtException", r.owner>>}
    /\ call' = IF r.owner \in Calls
               THEN [call EXCEPT ![r.owner].compileFailed = @ \cup {r.path}]
               ELSE call
    /\ UNCHANGED <<options, basePath, partialsLoaded, cache, partials, ready,
                   reads, loadCalls, enumerated, started>>

---------------------------------------------------------------------------

\* One job of the event loop, for render calls in the slots `slots` whose
\* arguments are drawn from the given sets.
Step(slots, viewDirs, viewNames, layouts, callbacks) ==
    \/ \E c \in slots, views \in viewDirs, viewName \in viewNames,
          contextLayout \in layouts, cb \in callbacks :
          \E dirReadable \in DirOutcomes :
             renderer(c, views, viewName, contextLayout, cb, dirReadable)
    \/ \E c \in Calls : RendererAfterEnsure(c)
    \/ \E c \in Calls : RendererAfterBody(c)
    \/ \E c \in Calls : RenderAfterEnsure(c)
    \/ \E c \in Calls : RenderAfterTemplate(c)
    \/ \E r \in pending : ReadFileFails(r)
    \/ \E r \in pending : ReadFileSucceeds(r)
    \/ \E r \in pending : CompileThrows(r)

\* Overlapping render calls on a renderer built with the default options:
\* two slots, either views directory, with the default layout or without one.
Next == Step(Calls, Views, {part, bad}, {Undefined, Null}, {"returns"})

Spec == InitDefault /\ [][Next]_vars

\* One render call at a time, with every argument and either cache option.
NextSequential == Step({"A"}, {"v1"}, ViewNames, LayoutInputs, Callbacks)

SpecSequential == Init /\ [][NextSequential]_vars
---------------------------------------------------------------------------
\* Properties

Started(c) == call[c].pc # "idle"
Ended(c) == call[c].pc = "done"
Callable(c) == call[c].cb # "absent"
Wrapped(c) == call[c].given.layout # Null

\* The template a correct load of `path` yields.
TemplateOf(path) == Compile(Content(path))

Entries(log) == {log[i] : i \in 1..Len(log)}

\* C1: every render call with a callable cb invokes cb at least once; as a
\* final result: a call that has run to its end has invoked its callback.
C1_CallbackInvoked ==
    \A c \in Calls : Ended(c) /\ Callable(c) => Len(call[c].cbLog) >= 1

\* C2: cb is invoked at most once per render call, whatever the outcome of
\* partial readiness, the file reads and the template invocation, also when
\* cb(null, output) itself raises.
C2_CallbackAtMostOnce ==
    \A c \in Calls : Len(call[c].cbLog) <= 1

\* C3: when the read of the requested view fails, the call's callback is
\* invoked with an error and no output, and never with a success result,
\* with a layout as well as without one.
C3_ViewReadFailureReported ==
    \A c \in Calls :
        Ended(c) /\ Callable(c) /\ call[c].view \in call[c].readFailed
            => call[c].cbLog = <<ErrorResult>>

\* C4: when compiling the text of a template that was read fails, the load
\* settles with the error, the render call's callback is invoked with it,
\* and the path gets no cache entry.
C4_CompileFailureReported ==
    \A c \in Calls :
        \A path \in call[c].compileFailed :
            /\ path \notin DOMAIN cache
            /\ \/ call[c].awaited.state = "rejected"
               \/ ErrorResult \in Entries(call[c].cbLog)

\* C5: in a layout-wrapped render whose body and layout both load, the
\* layout template is the file <settings.views>/<layoutsFolder>/<layout>,
\* it is invoked with the caller's context in which body is the output of
\* the view's template on that context, and cb receives (null, its output).
C5_LayoutComposition ==
    \A c \in Calls :
        Wrapped(c) /\ call[c].invoked # <<>> =>
            LET layoutFile == Join(call[c].given.views, layoutsFolder, call[c].layout)
                body == Apply(TemplateOf(call[c].view), call[c].given)
                context == [call[c].given EXCEPT !.body = <<body>>]
            IN  /\ call[c].invoked[1].path = layoutFile
                /\ call[c].invoked[1].context = context
                /\ call[c].cbLog = <<Success(Apply(TemplateOf(layoutFile), context))>>

CarriesExtension(name) == EndsWith(name, <<".">> \o fileExtension)

\* C7: the layout of a render call is the default layout, normalised with
\* the extension, when context.layout is undefined; none when it is null;
\* otherwise context.layout with the extension appended exactly when the
\* name does not carry it.  Earlier render calls play no part.
C7_LayoutChoice ==
    \A c \in Calls :
        Started(c) =>
            LET name == call[c].given.layout
            IN  call[c].layout =
                    IF name = Undefined
                    THEN defaultLayoutOption \o <<".">> \o fileExtension
                    ELSE IF name = Null THEN Null
                    ELSE IF CarriesExtension(name) THEN name
                    ELSE name \o <<".">> \o fileExtension

\* A call of loadTemplate for the path of call c is made in this step.
LoadStarts(c) ==
    /\ call[c].pc \in {"renderer:ensure", "render:ensure"}
    /\ call'[c].pc \in {"renderer:body", "render:template"}

\* C8 (as first stated): with caching enabled, each path is read from disk
\* at most once over sequential renders.
C8_EachPathReadOnce ==
    options.cacheTemplates => \A path \in DOMAIN reads : reads[path] <= 1

\* C8 (amended): with caching enabled, no loadTemplate call for a path that
\* has a cache entry issues a file read, be it made by a render call or by
\* the partial batch; the call resolves with the cached template.
C8_CachedPathNotRead ==
    [][options.cacheTemplates =>
          /\ \A r \in pending' \ pending : r.path \notin DOMAIN cache
          /\ \A path \in DOMAIN cache : Count(reads', path) = Count(reads, path)
          /\ \A c \in Calls :
                LoadStarts(c) /\ call[c].viewPath \in DOMAIN cache =>
                    /\ call'[c].awaited =
                          [state |-> "resolved", template |-> cache[call[c].viewPath]]
                    /\ c \in ready']_vars

\* C8 witness: a path loaded twice was read once, the second load having
\* resolved from the cache.
C8_Witness ==
    \E c \in Calls :
        /\ options.cacheTemplates
        /\ call[c].pc = "render:template"
        /\ c \in ready
        /\ call[c].awaited.state = "resolved"
        /\ call[c].viewPath \in DOMAIN cache
        /\ Count(loadCalls, call[c].viewPath) = 2
        /\ Count(reads, call[c].viewPath) = 1

\* C9: a renderer constructed with cacheTemplates = false reads the file on
\* every loadTemplate call: k loads of a path issue k reads.
C9_CacheBypassedWhenDisabled ==
    ~options.cacheTemplates =>
        \A path \in DOMAIN loadCalls : Count(reads, path) = loadCalls[path]

\* C10: partialsLoaded = true implies that every file of the partials
\* folder with the extension has finished loading and is registered.
C10_ReadyMeansRegistered ==
    partialsLoaded =>
        /\ \A r \in pending : ~r.registerAsPartial
        /\ \A folder \in enumerated :
              \A file \in PartialFiles(folder[1], folder[2]) :
                  /\ file \in DOMAIN cache
                  /\ partialName(file) \in DOMAIN partials

\* The partial batch failed: readdirSync raised or the read of a partial
\* failed.
BatchFailed == <<"unhandledRejection", "loadPartials">> \in faults

\* C11: when enumerating the partials folder or the load of a partial
\* fails, partialsLoaded stays false (so that the next render call starts
\* the batch again).
C11_FailedBatchNotReady ==
    BatchFailed => ~partialsLoaded

\* C12: when enumerating the partials folder or the load of a partial fails
\* in the batch a render call started, that call's callback is invoked with
\* the error and not with a success result.  Stated for the calls whose
\* own view and layout were read and compiled without failure and whose
\* view refers to no partial, where nothing but the batch has failed.
C12_BatchFailureReported ==
    \A c \in Calls :
        /\ call[c].startedBatch /\ BatchFailed /\ Ended(c) /\ Callable(c)
        /\ call[c].readFailed = {} /\ ~BadSource(Content(call[c].view))
        /\ Refs(Content(call[c].view)) = {}
        => call[c].cbLog = <<ErrorResult>>

InFlight(c) == call[c].pc \notin {"idle", "done"}

\* C13: over any interleaving of overlapping first render calls the partial
\* batch is started at most once: one folder is listed, each of its files
\* is loaded once, one call starts the batch and every call finds the
\* registry ready.
C13_BatchStartedOnce ==
    /\ Cardinality(enumerated) <= 1
    /\ \A folder \in enumerated :
          \A file \in PartialFiles(folder[1], folder[2]) :
              Count(loadCalls, file) <= 1
    /\ Cardinality({c \in Calls : call[c].startedBatch}) <= 1
    /\ \A c \in Calls : Started(c) => call[c].partialsReady

\* C13 witness: two render calls overlap, the second one started while the
\* partial of the first one's batch was still being read.
C13_Witness ==
    \E c, d \in Calls :
        /\ c # d
        /\ InFlight(c) /\ InFlight(d)
        /\ call[c].startedBatch /\ ~call[d].startedBatch
        /\ \E r \in pending : r.registerAsPartial
        /\ Cardinality(enumerated) = 1

\* C14: over any interleaving of overlapping first render calls with every
\* file present and readable, every call ends with cb(null, output).
C14_AllCallsSucceed ==
    \A c \in Calls :
        /\ Ended(c) /\ Callable(c)
        /\ faults = {}
        /\ \A d \in Calls : call[d].readFailed = {} /\ ~BadSource(Content(call[d].view))
        => /\ Len(call[c].cbLog) = 1
           /\ ~call[c].cbLog[1].error

\* Call c has begun to load a file of the layouts folder.
LayoutLoadStarted(c) == \E path \in call[c].loaded : path[2] = layoutsFolder

\* C15: in a layout-wrapped render call the body template has been invoked
\* and its output stored in context.body before the read of the layout file
\* starts and before the layout template is invoked.
C15_BodyBeforeLayout ==
    \A c \in Calls :
        /\ Wrapped(c)
        /\ \/ call[c].pc \in {"render:ensure", "render:template"}
           \/ LayoutLoadStarted(c)
           \/ call[c].invoked # <<>>
        => LET body == <<Apply(TemplateOf(call[c].view), call[c].given)>>
           IN  /\ call[c].context.body = body
               /\ call[c].invoked # <<>> => call[c].invoked[1].context.body = body

\* C15 witness: a layout-wrapped call holds its body and is about to start
\* the load of its layout.
C15_Witness ==
    \E c \in Calls :
        /\ Wrapped(c)
        /\ call[c].pc = "render:ensure"
        /\ ~LayoutLoadStarted(c)
        /\ call[c].context.body = <<Apply(TemplateOf(call[c].view), call[c].given)>>

\* C16: the base path is shared between render calls without isolation: every
\* render call overwrites it with its own views directory, nothing else
\* changes it, and a layout-wrapped call builds its layout path from the base
\* path found when its body load has completed. With two overlapping calls
\* whose views directories differ, a call therefore can resolve its layout
\* under the other call's directory.
C16_LayoutUnderSharedBasePath ==
    [][/\ basePath' # basePath => started' = started + 1
       /\ \A c \in Calls :
             /\ started' = started + 1 /\ call'[c] # call[c]
                => basePath' = call'[c].given.views
             /\ call[c].pc = "renderer:body" /\ call'[c].pc = "render:ensure"
                => call'[c].viewPath = LayoutPath(basePath, call[c].layout)]_vars

\* C16 witness: a layout-wrapped call, overlapped by a call with another
\* views directory, has resolved its layout under that other directory.
C16_Witness ==
    \E c, d \in Calls :
        /\ c # d
        /\ Wrapped(c) /\ Wrapped(d)
        /\ call[c].given.views # call[d].given.views
        /\ InFlight(c) /\ InFlight(d)
        /\ call[c].viewPath = LayoutPath(call[d].given.views, call[c].layout)

\* The read r fails in this step: the promise of its load is rejected.
ReadFailed(r) ==
    /\ r \in pending
    /\ r \notin pending'
    /\ IF r.owner \in Calls
       THEN call'[r.owner].awaited.state = "rejected"
       ELSE <<"unhandledRejection", r.owner>> \in faults' \ faults

\* C17: a loadTemplate call whose file read fails leaves the template cache
\* and the partial registry as they were: starting the load changes neither,
\* the failing read changes neither and gives the path no cache entry, and a
\* later load of a path without a cache entry issues a new read.
C17_FailedReadCachesNothing ==
    [][/\ reads' # reads => cache' = cache /\ partials' = partials
       /\ \A r \in pending :
             ReadFailed(r) =>
                 /\ cache' = cache
                 /\ partials' = partials
                 /\ r.path \notin DOMAIN cache => r.path \notin DOMAIN cache'
       /\ \A c \in Calls :
             LoadStarts(c) /\ call[c].viewPath \notin DOMAIN cache =>
                 /\ Count(reads', call[c].viewPath) = Count(reads, call[c].viewPath) + 1
                 /\ Read(c, call[c].viewPath, FALSE) \in pending']_vars

\* C17 witness: the read of a body failed in an earlier call (a body that
\* neither raises nor fails to compile, so the rejection is the read's), and
\* the present call reads the same path again, the path having no cache entry.
C17_Witness ==
    \E c \in Calls :
        /\ <<"unhandledRejection", c>> \in faults
        /\ ~BadSource(Content(call[c].view))
        /\ Refs(Content(call[c].view)) = {}
        /\ call[c].pc = "renderer:body"
        /\ Read(c, call[c].view, FALSE) \in pending
        /\ Count(reads, call[c].view) = 2
        /\ call[c].view \notin DOMAIN cache

\* Call c waits for, or has just received, the outcome of a load.
Loading(c) == call[c].pc \in {"renderer:body", "render:template"}

\* C18: concurrent loads of one uncached path are not deduplicated.  Every
\* call that waits for a load has a file read of its own in flight (unless
\* the compilation in its read callback raised), whatever other reads of the
\* path are in flight; every load that resolved did so with the template
\* compiled from the content of its path; and the cache holds for each path
\* one entry, the template compiled from that content.
C18_LoadsNotDeduplicated ==
    /\ \A c \in Calls :
          /\ Loading(c) /\ call[c].awaited.state = "pending"
             /\ call[c].viewPath \notin call[c].compileFailed
             => Read(c, call[c].viewPath, FALSE) \in pending
          /\ Loading(c) /\ call[c].awaited.state = "resolved"
             => /\ call[c].awaited.template = TemplateOf(call[c].viewPath)
                /\ call[c].viewPath \in DOMAIN cache
    /\ \A path \in DOMAIN cache : cache[path] = TemplateOf(path)
    /\ \A path \in DOMAIN reads : reads[path] <= Count(loadCalls, path)

\* C18 witness: two calls loaded the same path, each by a read of its own
\* (two loads, two reads: neither found a cache entry, so both started before
\* either completed); both resolved with the template compiled from the
\* file, and the cache holds that template for the path.
C18_Witness ==
    \E c, d \in Calls :
        /\ c # d
        /\ call[c].viewPath = call[d].viewPath
        /\ Count(loadCalls, call[c].viewPath) = 2
        /\ Count(reads, call[c].viewPath) = 2
        /\ \A r \in pending : r.path # call[c].viewPath
        /\ \A e \in {c, d} :
              /\ call[e].awaited.state = "resolved"
              /\ call[e].awaited.template = TemplateOf(call[c].viewPath)
        /\ call[c].viewPath \in DOMAIN cache
        /\ cache[call[c].viewPath] = TemplateOf(call[c].viewPath)

\* C19: partials are enumerated only under the views directory of the render
\* call that started the batch.  The step that sets partialsLoaded enumerates
\* the partials folder of the starting call's views directory and no other;
\* once partialsLoaded is true no step enumerates a folder or starts the load
\* of a partial, whatever views directory a later call names; and the
\* registry changes only when a read of the batch completes, for a file of
\* the enumerated folder, never by a step of a render call.
C19_PartialsOfFirstDirectoryOnly ==
    [][/\ ~partialsLoaded /\ partialsLoaded' =>
             \E c \in Calls :
                 /\ call'[c].startedBatch
                 /\ call[c].pc \in {"idle", "done"}
                 /\ enumerated' = {Join(call'[c].given.views, partialsFolder, <<>>)}
                 /\ \A r \in pending' \ pending :
                       r.registerAsPartial => r.path[1] = call'[c].given.views
       /\ partialsLoaded =>
             /\ partialsLoaded'
             /\ enumerated' = enumerated
             /\ \A r \in pending' \ pending : ~r.registerAsPartial
       /\ partials' # partials =>
             \E r \in pending \ pending' :
                 /\ r.registerAsPartial
                 /\ r.owner = "loadPartials"
                 /\ Join(r.path[1], partialsFolder, <<>>) \in enumerated
                 /\ call' = call]_vars

\* C19 witness: with partialsLoaded true, a render call that names another
\* views directory than the batch's has run to its end, and the partials
\* folder of its directory was never enumerated.
C19_Witness ==
    \E c \in Calls :
        /\ partialsLoaded
        /\ Ended(c)
        /\ ~call[c].startedBatch
        /\ Cardinality(enumerated) = 1
        /\ Join(call[c].given.views, partialsFolder, <<>>) \notin enumerated
        /\ \A r \in pending : r.path[1] # call[c].given.views \/ ~r.registerAsPartial
        /\ \A name \in DOMAIN partials :
              \E file \in UNION {PartialFiles(f[1], f[2]) : f \in enumerated} :
                  partialName(file) = name

====
